---- MODULE Spec2Model ----
(***************************************************************************)
(* Query-and-caching service layer of the film catalogue API:              *)
(* services/service.py, services/film.py, services/genre.py,               *)
(* services/person.py, services/search/elastic.py, db/cache.py.            *)
(*                                                                         *)
(* A request is a coroutine; one action of the model is the code between   *)
(* two awaits of a handler: the awaited I/O call together with everything  *)
(* the handler computes until it suspends again, returns or raises.        *)
(***************************************************************************)
EXTENDS Integers, Sequences, FiniteSets, TLC

VARIABLES
    engine,     \* index name -> (document id -> raw document or NoDoc)
    cache,      \* cache key -> [value, ttl] or None (the redis keyspace)
    req,        \* client -> the request it runs (a coroutine frame)
    lastPut,    \* history: cache key held -> the entity whose put filled it
    absentIds,  \* history: <<entity_name, id>> whose last get_by_id found no document
    rolesIn,    \* inputs of _get_roles_from_filmworks under SpecRoles
    rolesOut,   \* its result under SpecRoles
    searchIn,   \* arguments of the adapter's _search / text_search under SpecSearch
    searchOut   \* the call it sent to the engine and its result under SpecSearch

vars == <<engine, cache, req, lastPut, absentIds, rolesIn, rolesOut, searchIn, searchOut>>

(***************************************************************************)
(* Bounds of the model                                                     *)
(***************************************************************************)
MaxPage == 2
MaxPageSize == 2
MaxFilms == 2

(***************************************************************************)
(* Values                                                                  *)
(***************************************************************************)
\* an absent object (a document, an entity, a query, a parameter object)
None == [none |-> TRUE]
\* an absent or null string
NoneStr == "None"
\* redis's answer for a key it does not hold; not data is true of it
NoData == <<>>
\* no exception
NoError == "NoError"
ValidationError == "pydantic.ValidationError"

Ids == {"x1", "x2"}
IdOrder == <<"x1", "x2">>
Names == {"Alice", "Bob"}
Indexes == {"movies", "genres", "persons"}

Range(s) == {s[i] : i \in 1..Len(s)}

Min(a, b) == IF a < b THEN a ELSE b

(***************************************************************************)
(* utils/params.py                                                         *)
(***************************************************************************)
DefaultPageNumber == 1
DefaultPageSize == 10
PersonFilmsPageSize == 10000

CommonQueryParams(page_number, page_size, sort) ==
    [page_number |-> page_number, page_size |-> page_size, sort |-> sort]

(***************************************************************************)
(* services/service.py, services/film.py                                   *)
(***************************************************************************)
CACHE_EXPIRE_IN_SECONDS == 60 * 5

PERSON_ROLES == <<"actor", "director", "writer">>

(***************************************************************************)
(* models/model.py: hydration of a raw document, a record of the keys the  *)
(* document has.  The constructor raises ValidationError when a required   *)
(* key is absent: X_validates says whether it does not.                    *)
(***************************************************************************)
PersonFilm(id) == [id |-> id, roles |-> <<>>]

Person_validates(raw) == {"id", "full_name"} \subseteq DOMAIN raw

Person(raw) ==
    [id |-> raw.id, full_name |-> raw.full_name,
     films |-> IF "films" \in DOMAIN raw THEN raw.films ELSE <<>>]

Genre_validates(raw) == {"id", "name", "description"} \subseteq DOMAIN raw

Genre(raw) == [id |-> raw.id, name |-> raw.name, description |-> raw.description]

Film_validates(raw) == {"id", "title", "description", "imdb_rating"} \subseteq DOMAIN raw

Film(raw) ==
    LET list(k) == IF k \in DOMAIN raw THEN raw[k] ELSE <<>>
    IN [id |-> raw.id, title |-> raw.title, description |-> raw.description,
        imdb_rating |-> raw.imdb_rating,
        actors |-> list("actors"), writers |-> list("writers"),
        directors |-> list("directors"), genres |-> list("genres"),
        actors_names |-> list("actors_names"), writers_names |-> list("writers_names"),
        directors_names |-> list("directors_names")]

\* the constructor self.model of the service whose entity_name is given
Model_validates(entity_name, raw) ==
    CASE entity_name = "movies" -> Film_validates(raw)
      [] entity_name = "genres" -> Genre_validates(raw)
      [] entity_name = "persons" -> Person_validates(raw)

Model(entity_name, raw) ==
    CASE entity_name = "movies" -> Film(raw)
      [] entity_name = "genres" -> Genre(raw)
      [] entity_name = "persons" -> Person(raw)

\* a comprehension hydrating every raw document of a list: it is left by
\* ValidationError as soon as one element does not validate
ModelList_validates(entity_name, raws) ==
    \A i \in 1..Len(raws) : Model_validates(entity_name, raws[i])

ModelList(entity_name, raws) == [i \in 1..Len(raws) |-> Model(entity_name, raws[i])]

(***************************************************************************)
(* model_dump_json / model_validate_json.  The JSON text of an object is   *)
(* the sequence of its members, each a key with a string (str), a number   *)
(* (num), a list of strings (strs) or a list of objects (objs).            *)
(***************************************************************************)
JsonHas(data, key) == \E i \in 1..Len(data) : data[i].key = key
JsonMember(data, key) == data[CHOOSE i \in 1..Len(data) : data[i].key = key]

JStr(key, v) == [key |-> key, str |-> v]
JNum(key, v) == [key |-> key, num |-> v]
JStrs(key, v) == [key |-> key, strs |-> v]
JObjs(key, v) == [key |-> key, objs |-> v]

PersonFilm_dump(pf) == << JStr("id", pf.id), JStrs("roles", pf.roles) >>
PersonFilm_load(data) ==
    [id |-> JsonMember(data, "id").str, roles |-> JsonMember(data, "roles").strs]

FilmPerson_dump(fp) == << JStr("id", fp.id), JStr("name", fp.name) >>
FilmPerson_load(data) ==
    [id |-> JsonMember(data, "id").str, name |-> JsonMember(data, "name").str]

model_dump_json(entity_name, item) ==
    CASE entity_name = "persons" ->
           << JStr("id", item.id), JStr("full_name", item.full_name),
              JObjs("films", [i \in 1..Len(item.films) |-> PersonFilm_dump(item.films[i])]) >>
      [] entity_name = "genres" ->
           << JStr("id", item.id), JStr("name", item.name),
              JStr("description", item.description) >>
      [] entity_name = "movies" ->
           LET persons(l) == [i \in 1..Len(l) |-> FilmPerson_dump(l[i])]
           IN << JStr("id", item.id), JStr("title", item.title),
                 JStr("description", item.description),
                 JNum("imdb_rating", item.imdb_rating),
                 JObjs("actors", persons(item.actors)),
                 JObjs("writers", persons(item.writers)),
                 JObjs("directors", persons(item.directors)),
                 JStrs("genres", item.genres),
                 JStrs("actors_names", item.actors_names),
                 JStrs("writers_names", item.writers_names),
                 JStrs("directors_names", item.directors_names) >>

RequiredKeys(entity_name) ==
    CASE entity_name = "persons" -> {"id", "full_name"}
      [] entity_name = "genres" -> {"id", "name", "description"}
      [] entity_name = "movies" -> {"id", "title", "description", "imdb_rating"}

model_validate_json_validates(entity_name, data) ==
    \A k \in RequiredKeys(entity_name) : JsonHas(data, k)

model_validate_json(entity_name, data) ==
    LET str(k) == JsonMember(data, k).str
        strs(k) == IF JsonHas(data, k) THEN JsonMember(data, k).strs ELSE <<>>
        objs(k) == IF JsonHas(data, k) THEN JsonMember(data, k).objs ELSE <<>>
        persons(k) == [i \in 1..Len(objs(k)) |-> FilmPerson_load(objs(k)[i])]
    IN CASE entity_name = "persons" ->
              [id |-> str("id"), full_name |-> str("full_name"),
               films |-> [i \in 1..Len(objs("films")) |-> PersonFilm_load(objs("films")[i])]]
         [] entity_name = "genres" ->
              [id |-> str("id"), name |-> str("name"), description |-> str("description")]
         [] entity_name = "movies" ->
              [id |-> str("id"), title |-> str("title"),
               description |-> str("description"),
               imdb_rating |-> JsonMember(data, "imdb_rating").num,
               actors |-> persons("actors"), writers |-> persons("writers"),
               directors |-> persons("directors"), genres |-> strs("genres"),
               actors_names |-> strs("actors_names"),
               writers_names |-> strs("writers_names"),
               directors_names |-> strs("directors_names")]

(***************************************************************************)
(* The documents the search engine may hold (the engine is populated by    *)
(* an external loader and is read-only here).  A film embeds its persons   *)
(* as nested {id, name} objects and repeats their names in flat lists.     *)
(***************************************************************************)
FilmPerson(id, name) == [id |-> id, name |-> name]

Alice == FilmPerson("x1", "Alice")
Bob == FilmPerson("x2", "Bob")

NamesOf(refs) == [i \in 1..Len(refs) |-> refs[i].name]

FilmDoc(id, title, rating, actors, writers, directors, genres) ==
    [id |-> id, title |-> title, description |-> NoneStr, imdb_rating |-> rating,
     actors |-> actors, writers |-> writers, directors |-> directors,
     genres |-> genres,
     actors_names |-> NamesOf(actors), writers_names |-> NamesOf(writers),
     directors_names |-> NamesOf(directors)]

GenreDoc(id, name) == [id |-> id, name |-> name, description |-> NoneStr]

PersonDoc(id, full_name) == [id |-> id, full_name |-> full_name]

\* the document without the key
Without(doc, key) == [k \in DOMAIN doc \ {key} |-> doc[k]]

NoDoc == [nodoc |-> TRUE]

\* What the second document of an index may be: not there, well formed, or
\* lacking a key its model requires.  The first document of the movies and
\* persons indexes is well formed.
Variants == {"absent", "valid", "invalid"}

MovieDocs ==
    [x1 |-> [v \in Variants |->
               FilmDoc("x1", "Matrix", 8, <<Alice>>, <<>>, <<Alice>>, <<"Drama">>)],
     x2 |-> [absent |-> NoDoc,
             valid |-> FilmDoc("x2", "Alice", 9, <<Bob>>, <<Alice, Bob>>, <<Bob>>,
                               <<"Comedy">>),
             invalid |-> Without(FilmDoc("x2", "Alice", 9, <<Alice>>, <<>>, <<>>,
                                         <<"Drama">>), "title")]]

GenreDocs ==
    [x1 |-> [absent |-> GenreDoc("x1", "Drama"),
             valid |-> GenreDoc("x1", "Drama"),
             invalid |-> Without(GenreDoc("x1", "Drama"), "name")],
     x2 |-> [absent |-> NoDoc,
             valid |-> GenreDoc("x2", "Comedy"),
             invalid |-> GenreDoc("x2", "Comedy")]]

PersonDocs ==
    [x1 |-> [v \in Variants |-> PersonDoc("x1", "Alice")],
     x2 |-> [absent |-> NoDoc,
             valid |-> PersonDoc("x2", "Bob"),
             invalid |-> Without(PersonDoc("x2", "Bob"), "full_name")]]

(***************************************************************************)
(* The engine's answer to a search: the documents of the index the bool    *)
(* query matches, ordered by the sort list, cut to the page.               *)
(***************************************************************************)
ListFields == {"genres", "actors_names", "writers_names", "directors_names"}

\* "title^3" names the field title with a boost
FieldName(f) == IF f = "title^3" THEN "title" ELSE f

MatchesText(doc, f, q) ==
    LET field == FieldName(f)
    IN /\ field \in DOMAIN doc
       /\ IF field \in ListFields THEN q \in Range(doc[field]) ELSE q = doc[field]

MatchesNested(doc, nested) ==
    /\ nested.path \in DOMAIN doc
    /\ \E sub \in {"id", "name"} :
          /\ nested.query.bool.filter.term.field = nested.path \o "." \o sub
          /\ \E i \in 1..Len(doc[nested.path]) :
                doc[nested.path][i][sub] = nested.query.bool.filter.term.value

MatchesClause(doc, clause) ==
    CASE "match" \in DOMAIN clause ->
           MatchesText(doc, clause.match.field, clause.match.query)
      [] "multi_match" \in DOMAIN clause ->
           \E i \in 1..Len(clause.multi_match.fields) :
              MatchesText(doc, clause.multi_match.fields[i], clause.multi_match.query)
      [] "nested" \in DOMAIN clause -> MatchesNested(doc, clause.nested)

\* a bool query: every must clause, and one should clause at least when the
\* query has no must clause
MatchesBool(doc, query) ==
    /\ \A i \in 1..Len(query.bool.must) : MatchesClause(doc, query.bool.must[i])
    /\ \/ query.bool.should = <<>>
       \/ query.bool.must # <<>>
       \/ \E i \in 1..Len(query.bool.should) : MatchesClause(doc, query.bool.should[i])

\* the documents are sortable by their number field; any other sort field
\* (the relevance score of these queries included) ties
SortValue(doc, field) ==
    IF field = "imdb_rating" /\ field \in DOMAIN doc THEN doc[field] ELSE 0

IndexPos(id) == CHOOSE i \in 1..Len(IdOrder) : IdOrder[i] = id

RECURSIVE ComesBefore(_, _, _)
ComesBefore(d1, d2, sort) ==
    IF sort = <<>> THEN IndexPos(d1.id) < IndexPos(d2.id)
    ELSE LET v1 == SortValue(d1, Head(sort).field)
             v2 == SortValue(d2, Head(sort).field)
         IN IF v1 = v2 THEN ComesBefore(d1, d2, Tail(sort))
            ELSE IF Head(sort).order = "desc" THEN v1 > v2 ELSE v1 < v2

SearchHits(docs, call) ==
    LET matching == {id \in Ids : docs[id] # NoDoc /\ MatchesBool(docs[id], call.query)}
        rank(id) == Cardinality({e \in matching : ComesBefore(docs[e], docs[id], call.sort)})
        ordered == [i \in 1..Cardinality(matching) |->
                       docs[CHOOSE id \in matching : rank(id) = i - 1]]
    IN SubSeq(ordered, call.from_ + 1, Min(call.from_ + call.size, Len(ordered)))

(***************************************************************************)
(* The two clients.  up says whether the backend answers this call; a      *)
(* call to a backend that does not answer raises the client's              *)
(* ConnectionError.                                                        *)
(***************************************************************************)
NotFoundError == "elasticsearch.NotFoundError"
ElasticConnectionError == "elasticsearch.ConnectionError"
RedisConnectionError == "redis.ConnectionError"
ConnectionCacheError == "ConnectionCacheError"
IndexError == "IndexError"

Ok(value) == [raised |-> NoError, value |-> value]
Raises(error) == [raised |-> error]

elastic_get(index, id, up) ==
    IF ~up THEN Raises(ElasticConnectionError)
    ELSE IF engine[index][id] = NoDoc THEN Raises(NotFoundError)
    ELSE Ok([_source |-> engine[index][id]])

elastic_search(call, up) ==
    IF ~up THEN Raises(ElasticConnectionError)
    ELSE Ok(SearchHits(engine[call.index], call))

redis_get(key, up) ==
    IF ~up THEN Raises(RedisConnectionError)
    ELSE Ok(IF key \in DOMAIN cache THEN cache[key].value ELSE NoData)

\* mutant: a set on a key that is held appends to its value
redis_set_Appending(key, value, ttl, up) ==
    IF ~up THEN Raises(RedisConnectionError)
    ELSE Ok([k \in DOMAIN cache \cup {key} |->
                IF k # key THEN cache[k]
                ELSE IF key \in DOMAIN cache
                THEN [value |-> cache[key].value \o value, ttl |-> ttl]
                ELSE [value |-> value, ttl |-> ttl]])

redis_set(key, value, ttl, up) ==
    IF ~up THEN Raises(RedisConnectionError)
    ELSE Ok([k \in DOMAIN cache \cup {key} |->
                IF k = key THEN [value |-> value, ttl |-> ttl] ELSE cache[k]])

(***************************************************************************)
(* db/cache.py: RedisCache.  put answers with the keyspace after the set.  *)
(***************************************************************************)
RedisCache_get(key, up) ==
    LET r == redis_get(key, up)
    IN IF r.raised = RedisConnectionError THEN Raises(ConnectionCacheError) ELSE r

RedisCache_put(key, value, ttl, up) == redis_set(key, value, ttl, up)

(***************************************************************************)
(* services/search/elastic.py: ElasticSearchService.  A sort directive is  *)
(* the sequence of its tokens, a leading "-" being a token of its own; a   *)
(* search answers with the call it sent to the engine beside its result.   *)
(* An absent nested_objects and an empty one are the same to _search: both *)
(* are <<>> here.                                                          *)
(***************************************************************************)
RECURSIVE Join(_)
Join(tokens) == IF tokens = <<>> THEN "" ELSE Head(tokens) \o Join(Tail(tokens))

NestedObjectQuery(name, filter_field, term_value) ==
    [name |-> name, filter_field |-> filter_field, term_value |-> term_value]

\* mutant: NotFoundError is not caught
ElasticSearchService_get_by_id_NoCatch(index, id, up) ==
    LET doc == elastic_get(index, id, up)
    IN IF doc.raised # NoError THEN doc ELSE Ok(doc.value._source)

\* mutant: every engine error is caught, not NotFoundError alone
ElasticSearchService_get_by_id_CatchAll(index, id, up) ==
    LET doc == elastic_get(index, id, up)
    IN IF doc.raised # NoError THEN Ok(None) ELSE Ok(doc.value._source)

ElasticSearchService_get_by_id(index, id, up) ==
    LET doc == elastic_get(index, id, up)
    IN IF doc.raised = NotFoundError THEN Ok(None)
       ELSE IF doc.raised # NoError THEN doc
       ELSE Ok(doc.value._source)

\* mutant: the offset counts the requested page too
SearchFrom_PastThePage(params) == params.page_size * params.page_number

SearchFrom(params) ==
    IF params.page_number = 1 THEN 0
    ELSE params.page_size * params.page_number - params.page_size

\* mutant: the sign stays in the field name
SearchSortItem_KeepsSign(sort_field) ==
    IF sort_field[1] = "-" THEN [field |-> Join(sort_field), order |-> "desc"]
    ELSE [field |-> Join(sort_field), order |-> "asc"]

SearchSortItem(sort_field) ==
    IF sort_field[1] = "-" THEN [field |-> Join(Tail(sort_field)), order |-> "desc"]
    ELSE [field |-> Join(sort_field), order |-> "asc"]

SearchSort(params) ==
    [i \in 1..Len(params.sort) |-> SearchSortItem(params.sort[i])]
        \o << [field |-> "_score", order |-> "desc"] >>

SearchNested(nested_object) ==
    [nested |->
       [path |-> nested_object.name,
        query |-> [bool |-> [filter |-> [term |->
           [field |-> nested_object.name \o "." \o nested_object.filter_field,
            value |-> nested_object.term_value]]]]]]

\* mutant: the nested filters are required all together (must), not any (should)
SearchQuery_NestedInMust(nested_objects, search_query) ==
    [bool |->
       [must |-> (IF search_query # None THEN <<search_query>> ELSE <<>>)
                 \o [i \in 1..Len(nested_objects) |-> SearchNested(nested_objects[i])],
        should |-> <<>>]]

SearchQuery(nested_objects, search_query) ==
    [bool |->
       [must |-> IF search_query # None THEN <<search_query>> ELSE <<>>,
        should |-> [i \in 1..Len(nested_objects) |-> SearchNested(nested_objects[i])]]]

\* _search: no call is sent when building the sort list raises
ElasticSearchService_search(index, params0, nested_objects, search_query, up) ==
    LET params == IF params0 = None
                  THEN CommonQueryParams(DefaultPageNumber, DefaultPageSize, <<>>)
                  ELSE params0
    IN IF \E i \in 1..Len(params.sort) : params.sort[i] = <<>>
       THEN [raised |-> IndexError, call |-> None]
       ELSE LET call == [index |-> index, size |-> params.page_size,
                         from_ |-> SearchFrom(params),
                         query |-> SearchQuery(nested_objects, search_query),
                         sort |-> SearchSort(params)]
                response == elastic_search(call, up)
            IN IF response.raised # NoError
               THEN [raised |-> response.raised, call |-> call]
               ELSE [raised |-> NoError, value |-> response.value, call |-> call]

ElasticSearchService_get_list(index, params, nested_objects, up) ==
    ElasticSearchService_search(index, params, nested_objects, None, up)

\* mutant: a multi_match whatever the number of fields, never the fuzzy match
TextQuery_AlwaysMultiMatch(search_query, search_fields) ==
    IF search_query = NoneStr \/ search_query = "" THEN None
    ELSE [multi_match |-> [query |-> search_query, fields |-> search_fields]]

TextQuery(search_query, search_fields) ==
    IF search_query = NoneStr \/ search_query = "" THEN None
    ELSE IF Len(search_fields) = 1
    THEN [match |-> [field |-> search_fields[1], query |-> search_query,
                     fuzziness |-> "auto"]]
    ELSE [multi_match |-> [query |-> search_query, fields |-> search_fields]]

ElasticSearchService_text_search(index, search_query, search_fields, params, up) ==
    ElasticSearchService_search(index, params, <<>>,
                                TextQuery(search_query, search_fields), up)

(***************************************************************************)
(* services/service.py: Service                                            *)
(***************************************************************************)
\* mutant: the key without its entity kind
CacheKey_NoNamespace(entity_name, item_id) == item_id

CacheKey(entity_name, item_id) == entity_name \o "_" \o item_id

\* mutant: the cached data is read and dropped, every lookup is a miss
Service_get_from_cache_DropsHit(entity_name, item_id, up) ==
    LET data == RedisCache_get(CacheKey(entity_name, item_id), up)
    IN IF data.raised # NoError THEN data ELSE Ok(None)

Service_get_from_cache(entity_name, item_id, up) ==
    LET data == RedisCache_get(CacheKey(entity_name, item_id), up)
    IN IF data.raised # NoError THEN data
       ELSE IF data.value = NoData THEN Ok(None)
       ELSE IF ~model_validate_json_validates(entity_name, data.value)
       THEN Raises(ValidationError)
       ELSE Ok(model_validate_json(entity_name, data.value))

PutKey(entity_name, item) == CacheKey(entity_name, item.id)
PutValue(entity_name, item) == model_dump_json(entity_name, item)
PutTtl == CACHE_EXPIRE_IN_SECONDS

Service_put_to_cache(entity_name, item, up) ==
    RedisCache_put(PutKey(entity_name, item), PutValue(entity_name, item), PutTtl, up)

(***************************************************************************)
(* The I/O a request performs, in order (history kept with the request).   *)
(* A cache lookup notes the data it got and the entity whose put had       *)
(* filled the key.                                                         *)
(***************************************************************************)
CacheGetEvent(entity_name, item_id, up) ==
    [io |-> "cache.get", key |-> CacheKey(entity_name, item_id), ok |-> up,
     data |-> IF up THEN redis_get(CacheKey(entity_name, item_id), up).value ELSE NoData,
     filled_by |-> IF up /\ CacheKey(entity_name, item_id) \in DOMAIN lastPut
                   THEN lastPut[CacheKey(entity_name, item_id)] ELSE None]

CachePutEvent(entity_name, item, up) ==
    [io |-> "cache.put", key |-> PutKey(entity_name, item),
     value |-> PutValue(entity_name, item), ttl |-> PutTtl, ok |-> up]

EngineGetEvent(index, id, up) == [io |-> "es.get", index |-> index, id |-> id, ok |-> up]

EngineSearchEvents(r, up) ==
    IF r.call = None THEN <<>> ELSE << [io |-> "es.search", call |-> r.call, ok |-> up] >>

(***************************************************************************)
(* A request: the frame of one service call.                               *)
(***************************************************************************)
IdleFrame ==
    [svc |-> "", op |-> "", id |-> "", field |-> "", text |-> NoneStr, params |-> None,
     pc |-> "idle", status |-> "idle", item |-> None, hits |-> <<>>, k |-> 0,
     log |-> <<>>, result |-> None, error |-> NoError, logged |-> 0,
     prevAbsent |-> FALSE, response |-> None]

NewFrame(svc, op, id, text, params, pc) ==
    [IdleFrame EXCEPT !.svc = svc, !.op = op, !.id = id, !.text = text,
                      !.params = params, !.pc = pc, !.status = "running",
                      !.prevAbsent = (<<svc, id>> \in absentIds)]

Logged(fr, events) == [fr EXCEPT !.log = @ \o events]
Returned(fr, result) == [fr EXCEPT !.pc = "done", !.status = "returned", !.result = result]
Raised(fr, error) == [fr EXCEPT !.pc = "done", !.status = "raised", !.error = error]
Goto(fr, pc) == [fr EXCEPT !.pc = pc]

At(c, svc, op, pc) ==
    /\ req[c].status = "running"
    /\ req[c].svc = svc /\ req[c].op = op /\ req[c].pc = pc

Put(key, item, keyspace) ==
    /\ cache' = keyspace
    /\ lastPut' = [k \in DOMAIN lastPut \cup {key} |-> IF k = key THEN item ELSE lastPut[k]]

(***************************************************************************)
(* Service.get_by_id, as FilmService inherits it                           *)
(***************************************************************************)
\* lines 21-22: await self._get_from_cache(item_id)
Service_get_by_id_cache(c) ==
    /\ At(c, "movies", "get_by_id", "get_from_cache")
    /\ \E up \in BOOLEAN :
         LET fr == Logged(req[c], <<CacheGetEvent(req[c].svc, req[c].id, up)>>)
             item == Service_get_from_cache(fr.svc, fr.id, up)
         IN req' = [req EXCEPT ![c] =
                      IF item.raised # NoError THEN Raised(fr, item.raised)
                      ELSE IF item.value # None THEN Returned(fr, item.value)
                      ELSE Goto(fr, "search_get_by_id")]
    /\ UNCHANGED <<engine, cache, lastPut, absentIds, rolesIn, rolesOut, searchIn, searchOut>>

\* lines 23-24: await self.search_service.get_by_id(item_id), self.model(...)
Service_get_by_id_search(c) ==
    /\ At(c, "movies", "get_by_id", "search_get_by_id")
    /\ \E up \in BOOLEAN :
         LET fr == Logged(req[c], <<EngineGetEvent(req[c].svc, req[c].id, up)>>)
             item_dict == ElasticSearchService_get_by_id(fr.svc, fr.id, up)
         IN IF item_dict.raised # NoError
            THEN /\ req' = [req EXCEPT ![c] = Raised(fr, item_dict.raised)]
                 /\ UNCHANGED absentIds
            ELSE IF item_dict.value = None
            THEN /\ req' = [req EXCEPT ![c] = Returned(fr, None)]
                 /\ absentIds' = absentIds \cup {<<fr.svc, fr.id>>}
            ELSE /\ req' = [req EXCEPT ![c] =
                              IF ~Model_validates(fr.svc, item_dict.value)
                              THEN Raised(fr, ValidationError)
                              ELSE Goto([fr EXCEPT !.item = Model(fr.svc, item_dict.value)],
                                        "put_to_cache")]
                 /\ absentIds' = absentIds \ {<<fr.svc, fr.id>>}
    /\ UNCHANGED <<engine, cache, lastPut, rolesIn, rolesOut, searchIn, searchOut>>

\* lines 25-26: await self._put_to_cache(item); return item
Service_get_by_id_put(c) ==
    /\ At(c, "movies", "get_by_id", "put_to_cache")
    /\ \E up \in BOOLEAN :
         LET fr == Logged(req[c], <<CachePutEvent(req[c].svc, req[c].item, up)>>)
             put == Service_put_to_cache(fr.svc, fr.item, up)
         IN IF put.raised # NoError
            THEN /\ req' = [req EXCEPT ![c] = Raised(fr, put.raised)]
                 /\ UNCHANGED <<cache, lastPut>>
            ELSE /\ req' = [req EXCEPT ![c] = Returned(fr, fr.item)]
                 /\ Put(PutKey(fr.svc, fr.item), fr.item, put.value)
    /\ UNCHANGED <<engine, absentIds, rolesIn, rolesOut, searchIn, searchOut>>

(***************************************************************************)
(* services/genre.py: GenreService.get_by_id                               *)
(***************************************************************************)
\* lines 25-27
GenreService_get_by_id_cache(c) ==
    /\ At(c, "genres", "get_by_id", "get_from_cache")
    /\ \E up \in BOOLEAN :
         LET fr == Logged(req[c], <<CacheGetEvent(req[c].svc, req[c].id, up)>>)
             genre == Service_get_from_cache(fr.svc, fr.id, up)
         IN req' = [req EXCEPT ![c] =
                      IF genre.raised # NoError THEN Raised(fr, genre.raised)
                      ELSE IF genre.value # None THEN Returned(fr, genre.value)
                      ELSE Goto(fr, "search_get_by_id")]
    /\ UNCHANGED <<engine, cache, lastPut, absentIds, rolesIn, rolesOut, searchIn, searchOut>>

\* lines 28-31 and 34-35: the ValidationError of Genre(...) is caught and logged
GenreService_get_by_id_search(c) ==
    /\ At(c, "genres", "get_by_id", "search_get_by_id")
    /\ \E up \in BOOLEAN :
         LET fr == Logged(req[c], <<EngineGetEvent(req[c].svc, req[c].id, up)>>)
             genre_dict == ElasticSearchService_get_by_id(fr.svc, fr.id, up)
         IN IF genre_dict.raised # NoError
            THEN /\ req' = [req EXCEPT ![c] = Raised(fr, genre_dict.raised)]
                 /\ UNCHANGED absentIds
            ELSE IF genre_dict.value = None
            THEN /\ req' = [req EXCEPT ![c] = Returned(fr, None)]
                 /\ absentIds' = absentIds \cup {<<fr.svc, fr.id>>}
            ELSE /\ req' = [req EXCEPT ![c] =
                              IF ~Genre_validates(genre_dict.value)
                              THEN Returned([fr EXCEPT !.logged = @ + 1], None)
                              ELSE Goto([fr EXCEPT !.item = Genre(genre_dict.value)],
                                        "put_to_cache")]
                 /\ absentIds' = absentIds \ {<<fr.svc, fr.id>>}
    /\ UNCHANGED <<engine, cache, lastPut, rolesIn, rolesOut, searchIn, searchOut>>

\* lines 32-33
GenreService_get_by_id_put(c) ==
    /\ At(c, "genres", "get_by_id", "put_to_cache")
    /\ \E up \in BOOLEAN :
         LET fr == Logged(req[c], <<CachePutEvent(req[c].svc, req[c].item, up)>>)
             put == Service_put_to_cache(fr.svc, fr.item, up)
         IN IF put.raised # NoError
            THEN /\ req' = [req EXCEPT ![c] = Raised(fr, put.raised)]
                 /\ UNCHANGED <<cache, lastPut>>
            ELSE /\ req' = [req EXCEPT ![c] = Returned(fr, fr.item)]
                 /\ Put(PutKey(fr.svc, fr.item), fr.item, put.value)
    /\ UNCHANGED <<engine, absentIds, rolesIn, rolesOut, searchIn, searchOut>>

(***************************************************************************)
(* services/film.py: FilmService.get_person_films, the call it sends and   *)
(* its result; services/person.py: the roles of a person in films          *)
(***************************************************************************)
PersonNestedObjects(person_id) ==
    [i \in 1..Len(PERSON_ROLES) |-> NestedObjectQuery(PERSON_ROLES[i] \o "s", "id", person_id)]

\* the hydration of the raw documents an adapter call answered with
Hydrated(entity_name, r) ==
    IF r.raised # NoError THEN r
    ELSE IF ~ModelList_validates(entity_name, r.value)
    THEN [raised |-> ValidationError, call |-> r.call]
    ELSE [raised |-> NoError, value |-> ModelList(entity_name, r.value), call |-> r.call]

FilmService_get_person_films(person_id, params, up) ==
    Hydrated("movies",
             ElasticSearchService_get_list("movies", params,
                                           PersonNestedObjects(person_id), up))

\* mutant: the name is looked up among all the names of the film, whatever
\* the role
RECURSIVE RolesIn_AnyList(_, _, _)
RolesIn_AnyList(person, filmwork, roles) ==
    IF roles = <<>> THEN <<>>
    ELSE (IF person.full_name \in Range(filmwork.actors_names \o filmwork.writers_names
                                           \o filmwork.directors_names)
          THEN <<Head(roles)>> ELSE <<>>)
         \o RolesIn_AnyList(person, filmwork, Tail(roles))

RECURSIVE RolesIn(_, _, _)
RolesIn(person, filmwork, roles) ==
    IF roles = <<>> THEN <<>>
    ELSE (IF person.full_name \in Range(filmwork[Head(roles) \o "s_names"])
          THEN <<Head(roles)>> ELSE <<>>)
         \o RolesIn(person, filmwork, Tail(roles))

get_roles_from_filmworks(person, person_filmworks) ==
    [i \in 1..Len(person_filmworks) |->
        [PersonFilm(person_filmworks[i].id) EXCEPT
            !.roles = @ \o RolesIn(person, person_filmworks[i], PERSON_ROLES)]]

\* mutant: the page size of the related films is left at its default
AllFilmsParams_DefaultSize == CommonQueryParams(DefaultPageNumber, DefaultPageSize, <<>>)

AllFilmsParams == CommonQueryParams(DefaultPageNumber, PersonFilmsPageSize, <<>>)

(***************************************************************************)
(* services/person.py: PersonService.get_by_id                             *)
(***************************************************************************)
\* lines 26-27
PersonService_get_by_id_cache(c) ==
    /\ At(c, "persons", "get_by_id", "get_from_cache")
    /\ \E up \in BOOLEAN :
         LET fr == Logged(req[c], <<CacheGetEvent(req[c].svc, req[c].id, up)>>)
             person == Service_get_from_cache(fr.svc, fr.id, up)
         IN req' = [req EXCEPT ![c] =
                      IF person.raised # NoError THEN Raised(fr, person.raised)
                      ELSE IF person.value # None THEN Returned(fr, person.value)
                      ELSE Goto(fr, "search_get_by_id")]
    /\ UNCHANGED <<engine, cache, lastPut, absentIds, rolesIn, rolesOut, searchIn, searchOut>>

\* lines 28-31
PersonService_get_by_id_search(c) ==
    /\ At(c, "persons", "get_by_id", "search_get_by_id")
    /\ \E up \in BOOLEAN :
         LET fr == Logged(req[c], <<EngineGetEvent(req[c].svc, req[c].id, up)>>)
             person_dict == ElasticSearchService_get_by_id(fr.svc, fr.id, up)
         IN IF person_dict.raised # NoError
            THEN /\ req' = [req EXCEPT ![c] = Raised(fr, person_dict.raised)]
                 /\ UNCHANGED absentIds
            ELSE IF person_dict.value = None
            THEN /\ req' = [req EXCEPT ![c] = Returned(fr, None)]
                 /\ absentIds' = absentIds \cup {<<fr.svc, fr.id>>}
            ELSE /\ req' = [req EXCEPT ![c] =
                              IF ~Person_validates(person_dict.value)
                              THEN Raised(fr, ValidationError)
                              ELSE Goto([fr EXCEPT !.item = Person(person_dict.value)],
                                        "get_person_films")]
                 /\ absentIds' = absentIds \ {<<fr.svc, fr.id>>}
    /\ UNCHANGED <<engine, cache, lastPut, rolesIn, rolesOut, searchIn, searchOut>>

\* lines 32-39: PersonFilm(id=filmwork.id) of a hydrated film always validates
PersonService_get_by_id_films(c) ==
    /\ At(c, "persons", "get_by_id", "get_person_films")
    /\ \E up \in BOOLEAN :
         LET related_filmworks == FilmService_get_person_films(req[c].item.id, AllFilmsParams, up)
             fr == Logged(req[c], EngineSearchEvents(related_filmworks, up))
         IN req' = [req EXCEPT ![c] =
                      IF related_filmworks.raised # NoError
                      THEN Raised(fr, related_filmworks.raised)
                      ELSE Goto([fr EXCEPT !.item.films =
                                    get_roles_from_filmworks(fr.item, related_filmworks.value)],
                                "put_to_cache")]
    /\ UNCHANGED <<engine, cache, lastPut, absentIds, rolesIn, rolesOut, searchIn, searchOut>>

\* lines 42-44
PersonService_get_by_id_put(c) ==
    /\ At(c, "persons", "get_by_id", "put_to_cache")
    /\ \E up \in BOOLEAN :
         LET fr == Logged(req[c], <<CachePutEvent(req[c].svc, req[c].item, up)>>)
             put == Service_put_to_cache(fr.svc, fr.item, up)
         IN IF put.raised # NoError
            THEN /\ req' = [req EXCEPT ![c] = Raised(fr, put.raised)]
                 /\ UNCHANGED <<cache, lastPut>>
            ELSE /\ req' = [req EXCEPT ![c] = Returned(fr, fr.item)]
                 /\ Put(PutKey(fr.svc, fr.item), fr.item, put.value)
    /\ UNCHANGED <<engine, absentIds, rolesIn, rolesOut, searchIn, searchOut>>

(***************************************************************************)
(* The one-query listings: FilmService.search, FilmService.get_films,      *)
(* GenreService.get_list, PersonService.get_person_films                   *)
(***************************************************************************)
FilmSearchFields ==
    <<"title^3", "description", "actors_names", "writers_names", "directors_names">>

ListResult(fr, r, up) ==
    LET logged == Logged(fr, EngineSearchEvents(r, up))
    IN IF r.raised # NoError THEN Raised(logged, r.raised)
       ELSE Returned(logged, [list |-> r.value])

\* film.py lines 22-30
FilmService_search(c) ==
    /\ At(c, "movies", "search", "text_search")
    /\ \E up \in BOOLEAN :
         LET raw_films == ElasticSearchService_text_search(
                              "movies", req[c].text, FilmSearchFields, req[c].params, up)
         IN req' = [req EXCEPT ![c] = ListResult(req[c], Hydrated("movies", raw_films), up)]
    /\ UNCHANGED <<engine, cache, lastPut, absentIds, rolesIn, rolesOut, searchIn, searchOut>>

\* film.py lines 32-36; the genre given is the frame's item
FilmService_get_films(c) ==
    /\ At(c, "movies", "get_films", "text_search")
    /\ \E up \in BOOLEAN :
         LET genre == req[c].item
             search_query == IF genre # None THEN genre.name ELSE NoneStr
             films_raw == ElasticSearchService_text_search(
                              "movies", search_query, <<"genres">>, req[c].params, up)
         IN req' = [req EXCEPT ![c] = ListResult(req[c], Hydrated("movies", films_raw), up)]
    /\ UNCHANGED <<engine, cache, lastPut, absentIds, rolesIn, rolesOut, searchIn, searchOut>>

\* genre.py lines 37-41
GenreService_get_list(c) ==
    /\ At(c, "genres", "get_list", "get_list")
    /\ \E up \in BOOLEAN :
         LET raw_genres == ElasticSearchService_get_list("genres", req[c].params, <<>>, up)
         IN req' = [req EXCEPT ![c] = ListResult(req[c], Hydrated("genres", raw_genres), up)]
    /\ UNCHANGED <<engine, cache, lastPut, absentIds, rolesIn, rolesOut, searchIn, searchOut>>

\* person.py lines 46-48 and film.py lines 38-45
PersonService_get_person_films(c) ==
    /\ At(c, "persons", "get_person_films", "get_person_films")
    /\ \E up \in BOOLEAN :
         LET person_filmworks == FilmService_get_person_films(req[c].id, req[c].params, up)
         IN req' = [req EXCEPT ![c] = ListResult(req[c], person_filmworks, up)]
    /\ UNCHANGED <<engine, cache, lastPut, absentIds, rolesIn, rolesOut, searchIn, searchOut>>

(***************************************************************************)
(* services/person.py: PersonService.search                                *)
(***************************************************************************)
\* lines 51-54
PersonService_search_text(c) ==
    /\ At(c, "persons", "search", "text_search")
    /\ \E up \in BOOLEAN :
         LET raw_persons == ElasticSearchService_text_search(
                                "persons", req[c].text, <<"full_name">>, req[c].params, up)
             persons == Hydrated("persons", raw_persons)
             fr == Logged(req[c], EngineSearchEvents(persons, up))
         IN req' = [req EXCEPT ![c] =
                      IF persons.raised # NoError THEN Raised(fr, persons.raised)
                      ELSE IF persons.value = <<>> THEN Returned(fr, [list |-> <<>>])
                      ELSE Goto([fr EXCEPT !.hits = persons.value, !.k = 1],
                                "get_person_films")]
    /\ UNCHANGED <<engine, cache, lastPut, absentIds, rolesIn, rolesOut, searchIn, searchOut>>

\* mutant: search caches every person it has enriched, as get_by_id does
PersonService_search_films_Caching(c) ==
    /\ At(c, "persons", "search", "get_person_films")
    /\ \E up \in BOOLEAN :
         LET person == req[c].hits[req[c].k]
             related_filmworks == FilmService_get_person_films(person.id, AllFilmsParams, up)
             fr == Logged(req[c], EngineSearchEvents(related_filmworks, up))
             persons == [fr.hits EXCEPT ![fr.k].films =
                            get_roles_from_filmworks(person, related_filmworks.value)]
         IN IF related_filmworks.raised # NoError
            THEN /\ req' = [req EXCEPT ![c] = Raised(fr, related_filmworks.raised)]
                 /\ UNCHANGED <<cache, lastPut>>
            ELSE /\ req' = [req EXCEPT ![c] =
                              IF fr.k = Len(fr.hits)
                              THEN Returned([fr EXCEPT !.hits = persons], [list |-> persons])
                              ELSE [fr EXCEPT !.hits = persons, !.k = @ + 1]]
                 /\ Put(PutKey("persons", persons[fr.k]), persons[fr.k],
                        Service_put_to_cache("persons", persons[fr.k], TRUE).value)
    /\ UNCHANGED <<engine, absentIds, rolesIn, rolesOut, searchIn, searchOut>>

\* lines 55-60: one turn of the loop over the persons found
PersonService_search_films(c) ==
    /\ At(c, "persons", "search", "get_person_films")
    /\ \E up \in BOOLEAN :
         LET person == req[c].hits[req[c].k]
             related_filmworks == FilmService_get_person_films(person.id, AllFilmsParams, up)
             fr == Logged(req[c], EngineSearchEvents(related_filmworks, up))
             persons == [fr.hits EXCEPT ![fr.k].films =
                            get_roles_from_filmworks(person, related_filmworks.value)]
         IN req' = [req EXCEPT ![c] =
                      IF related_filmworks.raised # NoError
                      THEN Raised(fr, related_filmworks.raised)
                      ELSE IF fr.k = Len(fr.hits)
                      THEN Returned([fr EXCEPT !.hits = persons], [list |-> persons])
                      ELSE [fr EXCEPT !.hits = persons, !.k = @ + 1]]
    /\ UNCHANGED <<engine, cache, lastPut, absentIds, rolesIn, rolesOut, searchIn, searchOut>>

(***************************************************************************)
(* services/service.py: Service.get_by_text_field                          *)
(***************************************************************************)
\* line 38: the result of this first query is dropped
Service_get_by_text_field_first(c) ==
    /\ req[c].status = "running" /\ req[c].op = "get_by_text_field"
    /\ req[c].pc = "text_search"
    /\ \E up \in BOOLEAN :
         LET items == ElasticSearchService_text_search(
                          req[c].svc, req[c].text, <<req[c].field>>, None, up)
             fr == Logged(req[c], EngineSearchEvents(items, up))
         IN req' = [req EXCEPT ![c] =
                      IF items.raised # NoError THEN Raised(fr, items.raised)
                      ELSE Goto(fr, "text_search_again")]
    /\ UNCHANGED <<engine, cache, lastPut, absentIds, rolesIn, rolesOut, searchIn, searchOut>>

\* lines 39-40
Service_get_by_text_field_second(c) ==
    /\ req[c].status = "running" /\ req[c].op = "get_by_text_field"
    /\ req[c].pc = "text_search_again"
    /\ \E up \in BOOLEAN :
         LET items == ElasticSearchService_text_search(
                          req[c].svc, req[c].text, <<req[c].field>>, None, up)
             fr == Logged(req[c], EngineSearchEvents(items, up))
         IN req' = [req EXCEPT ![c] =
                      IF items.raised # NoError THEN Raised(fr, items.raised)
                      ELSE IF items.value = <<>> THEN Returned(fr, None)
                      ELSE IF ~Model_validates(fr.svc, items.value[1])
                      THEN Raised(fr, ValidationError)
                      ELSE Returned(fr, Model(fr.svc, items.value[1]))]
    /\ UNCHANGED <<engine, cache, lastPut, absentIds, rolesIn, rolesOut, searchIn, searchOut>>

(***************************************************************************)
(* The callers (api/v1) and the environment                                *)
(***************************************************************************)
SortChoices == { <<>>, << <<"-", "imdb_rating">> >> }

ParamsChoices ==
    { CommonQueryParams(n, size, sort) :
        n \in 1..MaxPage, size \in 1..MaxPageSize, sort \in SortChoices }

GetByIdInvocations ==
    { NewFrame(svc, "get_by_id", id, NoneStr, None, "get_from_cache") :
        svc \in Indexes, id \in Ids }

Invocations ==
    GetByIdInvocations
    \cup { NewFrame("movies", "search", "", text, params, "text_search") :
             text \in {"Matrix", "Alice"}, params \in ParamsChoices }
    \cup { [NewFrame("movies", "get_films", "", NoneStr, params, "text_search")
               EXCEPT !.item = genre] :
             genre \in {None, Genre(GenreDoc("x1", "Drama"))}, params \in ParamsChoices }
    \cup { NewFrame("genres", "get_list", "", NoneStr, params, "get_list") :
             params \in ParamsChoices }
    \cup { NewFrame("persons", "search", "", text, params, "text_search") :
             text \in {"Alice", ""}, params \in ParamsChoices }
    \cup { NewFrame("persons", "get_person_films", id, NoneStr, params, "get_person_films") :
             id \in Ids, params \in ParamsChoices }
    \cup { [NewFrame("genres", "get_by_text_field", "", text, None, "text_search")
               EXCEPT !.field = "name"] :
             text \in {"Drama", "Comedy"} }

\* a route handler calls a service method
Call(c) ==
    /\ req[c].status = "idle"
    /\ \E fr \in Invocations : req' = [req EXCEPT ![c] = fr]
    /\ UNCHANGED <<engine, cache, lastPut, absentIds, rolesIn, rolesOut, searchIn, searchOut>>

\* the route handler has its answer (a result or an exception): the
\* coroutine of the call is over
Respond(c) ==
    /\ req[c].status \in {"returned", "raised"}
    /\ req' = [req EXCEPT ![c] = IdleFrame]
    /\ UNCHANGED <<engine, cache, lastPut, absentIds, rolesIn, rolesOut, searchIn, searchOut>>

\* redis drops a key when its ttl has run out
Expire ==
    /\ \E key \in DOMAIN cache :
          /\ cache' = [k \in DOMAIN cache \ {key} |-> cache[k]]
          /\ lastPut' = [k \in DOMAIN lastPut \ {key} |-> lastPut[k]]
    /\ UNCHANGED <<engine, req, absentIds, rolesIn, rolesOut, searchIn, searchOut>>

Clients == {1}

\* the states the loader may have left the engine in
EngineStates ==
    { [movies |-> [id \in Ids |-> MovieDocs[id][mv]],
       genres |-> [id \in Ids |-> GenreDocs[id][gv]],
       persons |-> [id \in Ids |-> PersonDocs[id][gv]]] :
        mv \in Variants, gv \in Variants }

Init ==
    /\ engine \in EngineStates
    /\ cache = <<>>
    /\ req = [c \in Clients |-> IdleFrame]
    /\ lastPut = <<>>
    /\ absentIds = {}
    /\ rolesIn = None
    /\ rolesOut = [done |-> FALSE, value |-> <<>>]
    /\ searchIn = None
    /\ searchOut = [done |-> FALSE]

Next ==
    \/ \E c \in DOMAIN req : Call(c)
    \/ \E c \in DOMAIN req : Respond(c)
    \/ Expire
    \/ \E c \in DOMAIN req : Service_get_by_id_cache(c)
    \/ \E c \in DOMAIN req : Service_get_by_id_search(c)
    \/ \E c \in DOMAIN req : Service_get_by_id_put(c)
    \/ \E c \in DOMAIN req : GenreService_get_by_id_cache(c)
    \/ \E c \in DOMAIN req : GenreService_get_by_id_search(c)
    \/ \E c \in DOMAIN req : GenreService_get_by_id_put(c)
    \/ \E c \in DOMAIN req : PersonService_get_by_id_cache(c)
    \/ \E c \in DOMAIN req : PersonService_get_by_id_search(c)
    \/ \E c \in DOMAIN req : PersonService_get_by_id_films(c)
    \/ \E c \in DOMAIN req : PersonService_get_by_id_put(c)
    \/ \E c \in DOMAIN req : FilmService_search(c)
    \/ \E c \in DOMAIN req : FilmService_get_films(c)
    \/ \E c \in DOMAIN req : GenreService_get_list(c)
    \/ \E c \in DOMAIN req : PersonService_get_person_films(c)
    \/ \E c \in DOMAIN req : PersonService_search_text(c)
    \/ \E c \in DOMAIN req : PersonService_search_films(c)
    \/ \E c \in DOMAIN req : Service_get_by_text_field_first(c)
    \/ \E c \in DOMAIN req : Service_get_by_text_field_second(c)

Spec == Init /\ [][Next]_vars

(***************************************************************************)
(* _get_roles_from_filmworks on its own: any person and any list of at     *)
(* most MaxFilms films, whose three name lists are any of NameLists.       *)
(***************************************************************************)
NameLists == { <<>>, <<"Alice">>, <<"Bob", "Alice", "Alice">> }

FilmWithNames(id, actors_names, writers_names, directors_names) ==
    [Film(FilmDoc(id, "Matrix", 8, <<>>, <<>>, <<>>, <<>>)) EXCEPT
        !.actors_names = actors_names, !.writers_names = writers_names,
        !.directors_names = directors_names]

FilmLists ==
    UNION { [1..n -> [actors_names : NameLists, writers_names : NameLists,
                      directors_names : NameLists]] : n \in 0..MaxFilms }

RolesInputs ==
    { [person |-> Person(PersonDoc("x1", name)),
       films |-> [i \in 1..Len(l) |->
                    FilmWithNames("x" \o ToString(i), l[i].actors_names,
                                  l[i].writers_names, l[i].directors_names)]] :
        name \in Names, l \in FilmLists }

InitRoles ==
    /\ engine = CHOOSE e \in EngineStates : \A i \in Indexes, id \in Ids : e[i][id] # NoDoc
    /\ cache = <<>>
    /\ req = [c \in Clients |-> IdleFrame]
    /\ lastPut = <<>>
    /\ absentIds = {}
    /\ rolesIn \in RolesInputs
    /\ rolesOut = [done |-> FALSE, value |-> <<>>]
    /\ searchIn = None
    /\ searchOut = [done |-> FALSE]

\* person.py lines 62-71
ApplyRoles ==
    /\ ~rolesOut.done
    /\ rolesOut' = [done |-> TRUE,
                    value |-> get_roles_from_filmworks(rolesIn.person, rolesIn.films)]
    /\ UNCHANGED <<engine, cache, req, lastPut, absentIds, rolesIn, searchIn, searchOut>>

NextRoles == ApplyRoles

SpecRoles == InitRoles /\ [][NextRoles]_vars

(***************************************************************************)
(* The adapter's _search and text_search on their own: any page, any list  *)
(* of at most MaxSort sort directives, with and without nested filters and *)
(* a text query, against any state of the movies index.                    *)
(***************************************************************************)
MaxSort == 2

\* "-imdb_rating", "imdb_rating", "title", and the empty string, which the
\* route layer lets through (sort is a list of any strings)
SortDirectives == { <<"-", "imdb_rating">>, <<"imdb_rating">>, <<"title">>, <<>> }

SortLists == UNION { [1..n -> SortDirectives] : n \in 0..MaxSort }

PageSizes == (1..MaxPageSize) \cup {DefaultPageSize}

SearchParams ==
    {None} \cup { CommonQueryParams(n, size, sort) :
                    n \in 1..MaxPage, size \in PageSizes, sort \in SortLists }

NestedChoices ==
    { <<>>,
      << NestedObjectQuery("actors", "id", "x2") >>,
      << NestedObjectQuery("writers", "id", "x1"),
         NestedObjectQuery("directors", "id", "x1") >> }

QueryChoices == { None, TextQuery("Matrix", <<"title">>) }

SearchInputs ==
    { [fn |-> "_search", params |-> params, nested_objects |-> nested_objects,
       search_query |-> search_query] :
        params \in SearchParams, nested_objects \in NestedChoices,
        search_query \in QueryChoices }
    \cup
    { [fn |-> "text_search", params |-> params, search_query |-> search_query,
       search_fields |-> search_fields] :
        params \in SearchParams, search_query \in {NoneStr, "", "Matrix", "Alice"},
        search_fields \in { <<"title">>, <<"genres">>, FilmSearchFields } }

InitSearch ==
    /\ engine \in EngineStates
    /\ cache = <<>>
    /\ req = [c \in Clients |-> IdleFrame]
    /\ lastPut = <<>>
    /\ absentIds = {}
    /\ rolesIn = None
    /\ rolesOut = [done |-> FALSE, value |-> <<>>]
    /\ searchIn \in SearchInputs
    /\ searchOut = [done |-> FALSE]

\* elastic.py lines 56-102
ApplySearch ==
    /\ ~searchOut.done /\ searchIn.fn = "_search"
    /\ \E up \in BOOLEAN :
          searchOut' = [done |-> TRUE, up |-> up,
                        r |-> ElasticSearchService_search(
                                  "movies", searchIn.params, searchIn.nested_objects,
                                  searchIn.search_query, up)]
    /\ UNCHANGED <<engine, cache, req, lastPut, absentIds, rolesIn, rolesOut, searchIn>>

\* elastic.py lines 35-54
ApplyTextSearch ==
    /\ ~searchOut.done /\ searchIn.fn = "text_search"
    /\ \E up \in BOOLEAN :
          searchOut' = [done |-> TRUE, up |-> up,
                        r |-> ElasticSearchService_text_search(
                                  "movies", searchIn.search_query, searchIn.search_fields,
                                  searchIn.params, up)]
    /\ UNCHANGED <<engine, cache, req, lastPut, absentIds, rolesIn, rolesOut, searchIn>>

NextSearch == ApplySearch \/ ApplyTextSearch

SpecSearch == InitSearch /\ [][NextSearch]_vars

(***************************************************************************)
(* Concurrent requests: MaxClients coroutines, each running one get_by_id  *)
(* for the same id, interleaved at every await, while keys expire.  The    *)
(* engine is read-only: no action changes it.                              *)
(***************************************************************************)
MaxClients == 2

ConcurrentClients == 1..MaxClients

InitConcurrent ==
    /\ engine \in EngineStates
    /\ cache = <<>>
    /\ req = [c \in ConcurrentClients |-> IdleFrame]
    /\ lastPut = <<>>
    /\ absentIds = {}
    /\ rolesIn = None
    /\ rolesOut = [done |-> FALSE, value |-> <<>>]
    /\ searchIn = None
    /\ searchOut = [done |-> FALSE]

\* film_details, genre_details, person_details call get_by_id, all the
\* requests in flight or over being for one id
CallGetById(c) ==
    /\ req[c].status = "idle"
    /\ \E fr \in GetByIdInvocations :
          /\ \A d \in DOMAIN req : req[d].status # "idle" => req[d].id = fr.id
          /\ req' = [req EXCEPT ![c] = fr]
    /\ UNCHANGED <<engine, cache, lastPut, absentIds, rolesIn, rolesOut, searchIn, searchOut>>

NextConcurrent ==
    \/ \E c \in DOMAIN req : CallGetById(c)
    \/ Expire
    \/ \E c \in DOMAIN req : Service_get_by_id_cache(c)
    \/ \E c \in DOMAIN req : Service_get_by_id_search(c)
    \/ \E c \in DOMAIN req : Service_get_by_id_put(c)
    \/ \E c \in DOMAIN req : GenreService_get_by_id_cache(c)
    \/ \E c \in DOMAIN req : GenreService_get_by_id_search(c)
    \/ \E c \in DOMAIN req : GenreService_get_by_id_put(c)
    \/ \E c \in DOMAIN req : PersonService_get_by_id_cache(c)
    \/ \E c \in DOMAIN req : PersonService_get_by_id_search(c)
    \/ \E c \in DOMAIN req : PersonService_get_by_id_films(c)
    \/ \E c \in DOMAIN req : PersonService_get_by_id_put(c)

SpecConcurrent == InitConcurrent /\ [][NextConcurrent]_vars

(***************************************************************************)
(* api/v1/persons.py, api/v1/genres.py: the list routes.  A route awaits   *)
(* its service call and returns the list it got; an exception of the       *)
(* service call passes through the route.                                  *)
(***************************************************************************)
HTTPException == "fastapi.HTTPException"

\* the answer of a route that returns what its service call returned
Passed(fr) ==
    IF fr.status = "raised" THEN [raised |-> fr.error]
    ELSE [raised |-> NoError, body |-> fr.result.list]

Responded(fr, response) == [fr EXCEPT !.status = "responded", !.response = response]

RouteInvocations ==
    { NewFrame("persons", "search", "", text, params, "text_search") :
        text \in {"Alice", "Zed"}, params \in ParamsChoices }
    \cup { NewFrame("persons", "get_person_films", id, NoneStr, params, "get_person_films") :
             id \in Ids, params \in ParamsChoices }
    \cup { NewFrame("genres", "get_list", "", NoneStr, params, "get_list") :
             params \in ParamsChoices }

\* persons.py line 65, lines 93, genres.py line 41: the route calls its service
CallList(c) ==
    /\ req[c].status = "idle"
    /\ \E fr \in RouteInvocations : req' = [req EXCEPT ![c] = fr]
    /\ UNCHANGED <<engine, cache, lastPut, absentIds, rolesIn, rolesOut, searchIn, searchOut>>

\* persons.py lines 65-66
person_search(c) ==
    /\ req[c].status \in {"returned", "raised"}
    /\ req[c].svc = "persons" /\ req[c].op = "search"
    /\ req' = [req EXCEPT ![c] = Responded(req[c], Passed(req[c]))]
    /\ UNCHANGED <<engine, cache, lastPut, absentIds, rolesIn, rolesOut, searchIn, searchOut>>

\* persons.py lines 93-94
person_filmworks(c) ==
    /\ req[c].status \in {"returned", "raised"}
    /\ req[c].svc = "persons" /\ req[c].op = "get_person_films"
    /\ req' = [req EXCEPT ![c] = Responded(req[c], Passed(req[c]))]
    /\ UNCHANGED <<engine, cache, lastPut, absentIds, rolesIn, rolesOut, searchIn, searchOut>>

\* genres.py line 41
genre_list(c) ==
    /\ req[c].status \in {"returned", "raised"}
    /\ req[c].svc = "genres" /\ req[c].op = "get_list"
    /\ req' = [req EXCEPT ![c] = Responded(req[c], Passed(req[c]))]
    /\ UNCHANGED <<engine, cache, lastPut, absentIds, rolesIn, rolesOut, searchIn, searchOut>>

NextRoutes ==
    \/ \E c \in DOMAIN req : CallList(c)
    \/ \E c \in DOMAIN req : PersonService_search_text(c)
    \/ \E c \in DOMAIN req : PersonService_search_films(c)
    \/ \E c \in DOMAIN req : PersonService_get_person_films(c)
    \/ \E c \in DOMAIN req : GenreService_get_list(c)
    \/ \E c \in DOMAIN req : person_search(c)
    \/ \E c \in DOMAIN req : person_filmworks(c)
    \/ \E c \in DOMAIN req : genre_list(c)

SpecRoutes == Init /\ [][NextRoutes]_vars

(***************************************************************************)
(* Properties.  They read the requests that are over (returned or raised)  *)
(* and the I/O each has performed.                                         *)
(***************************************************************************)
Over == {c \in DOMAIN req : req[c].status \in {"returned", "raised"}}

GetByIdOver == {c \in Over : req[c].op = "get_by_id"}

EventsOf(fr, ios) == {i \in 1..Len(fr.log) : fr.log[i].io \in ios}

\* the request's cache lookup was answered with data: a cache hit
CacheHit(fr) ==
    /\ Len(fr.log) >= 1 /\ fr.log[1].io = "cache.get"
    /\ fr.log[1].ok /\ fr.log[1].data # NoData

\* the request's cache lookup was answered with nothing: a cache miss
CacheMiss(fr) ==
    /\ Len(fr.log) >= 1 /\ fr.log[1].io = "cache.get"
    /\ fr.log[1].ok /\ fr.log[1].data = NoData

AllAnswered(fr) == \A i \in 1..Len(fr.log) : fr.log[i].ok

\* the ids of the persons a film document embeds under any of its roles
PersonIdsOf(doc) ==
    {doc.actors[i].id : i \in 1..Len(doc.actors)}
    \cup {doc.writers[i].id : i \in 1..Len(doc.writers)}
    \cup {doc.directors[i].id : i \in 1..Len(doc.directors)}

\* the films of the engine that embed the person
FilmIdsOfPerson(person_id) ==
    {id \in Ids : engine.movies[id] # NoDoc /\ person_id \in PersonIdsOf(engine.movies[id])}

\* C1: get_by_id on a cache hit returns the entity the cached value was
\* serialized from (the one whose put filled the key) and sends the engine
\* no query: the cache lookup is the only I/O of the request.
C1_CacheHitServedFromCache ==
    \A c \in GetByIdOver :
        CacheHit(req[c]) =>
            /\ req[c].status = "returned"
            /\ req[c].result = req[c].log[1].filled_by
            /\ req[c].result.id = req[c].id
            /\ Len(req[c].log) = 1

C1_Witness ==
    \E c \in GetByIdOver :
        /\ CacheHit(req[c]) /\ req[c].svc = "persons"
        /\ req[c].status = "returned" /\ Len(req[c].result.films) = 2

\* the documents a get_by_id of the service reads all validate
DocumentsValidate(fr) ==
    /\ Model_validates(fr.svc, engine[fr.svc][fr.id])
    /\ fr.svc = "persons" =>
          \A f \in FilmIdsOfPerson(fr.id) : Film_validates(engine.movies[f])

\* C2: get_by_id on a cache miss, the engine holding a (well formed)
\* document for the id and both backends answering: the request returns the
\* entity hydrated from the document, and its last I/O is its only cache put,
\* under "<entity_kind>_<id>", with ttl 300 and the entity's serialization.
\* Keys of different kinds for one id differ, and a key of a kind only ever
\* holds an entity of that kind with that id.
C2_MissFillsCache ==
    /\ \A c \in GetByIdOver :
          LET fr == req[c]
              n == Len(fr.log)
          IN ( /\ CacheMiss(fr) /\ AllAnswered(fr)
               /\ engine[fr.svc][fr.id] # NoDoc /\ DocumentsValidate(fr) )
             => /\ fr.status = "returned" /\ fr.result # None
                /\ fr.result.id = fr.id
                /\ fr.result =
                      IF fr.svc = "persons"
                      THEN [Model(fr.svc, engine[fr.svc][fr.id]) EXCEPT !.films = fr.result.films]
                      ELSE Model(fr.svc, engine[fr.svc][fr.id])
                /\ EventsOf(fr, {"cache.put"}) = {n}
                /\ fr.log[n].key = fr.svc \o "_" \o fr.id
                /\ fr.log[n].ttl = 300
                /\ model_validate_json_validates(fr.svc, fr.log[n].value)
                /\ model_validate_json(fr.svc, fr.log[n].value) = fr.result
    /\ \A s1, s2 \in Indexes : \A id \in Ids :
          s1 # s2 => CacheKey(s1, id) # CacheKey(s2, id)
    /\ \A svc \in Indexes : \A id \in Ids :
          (svc \o "_" \o id) \in DOMAIN cache =>
             /\ cache[svc \o "_" \o id].ttl = 300
             /\ model_validate_json_validates(svc, cache[svc \o "_" \o id].value)
             /\ model_validate_json(svc, cache[svc \o "_" \o id].value) =
                   [Model(svc, engine[svc][id]) EXCEPT
                       !.films = IF svc = "persons"
                                 THEN lastPut[svc \o "_" \o id].films ELSE <<>>]

C2_Witness ==
    \E c \in GetByIdOver :
        /\ CacheMiss(req[c]) /\ req[c].svc = "genres" /\ req[c].status = "returned"
        /\ req[c].result # None
        /\ "movies_" \o req[c].id \in DOMAIN cache
        /\ "genres_" \o req[c].id \in DOMAIN cache

\* C3: get_by_id for an id that neither the cache nor the engine holds
\* returns None, its I/O being the cache lookup and the engine lookup and no
\* cache put, and no key is left for the id; the next get_by_id for the id,
\* its cache lookup answered, asks the engine again.
C3_AbsentNotCached ==
    /\ \A c \in GetByIdOver :
          LET fr == req[c]
          IN (CacheMiss(fr) /\ AllAnswered(fr) /\ engine[fr.svc][fr.id] = NoDoc)
             => /\ fr.status = "returned" /\ fr.result = None
                /\ Len(fr.log) = 2 /\ fr.log[2].io = "es.get"
                /\ fr.log[2].index = fr.svc /\ fr.log[2].id = fr.id
                /\ (fr.svc \o "_" \o fr.id) \notin DOMAIN cache
                /\ <<fr.svc, fr.id>> \in absentIds
    /\ \A c \in DOMAIN req :
          LET fr == req[c]
          IN (fr.op = "get_by_id" /\ fr.prevAbsent) =>
                /\ Len(fr.log) >= 1 => (fr.log[1].ok => fr.log[1].data = NoData)
                /\ (c \in Over /\ fr.log[1].ok) =>
                      Len(fr.log) >= 2 /\ fr.log[2].io = "es.get" /\ fr.log[2].id = fr.id

C3_Witness ==
    \E c \in GetByIdOver :
        /\ req[c].prevAbsent /\ req[c].svc = "persons"
        /\ req[c].status = "returned" /\ req[c].result = None
        /\ Len(req[c].log) = 2 /\ cache # <<>>

\* C4: a request, one of whose cache calls (get or put) was not answered,
\* raises ConnectionCacheError.
C4_CacheFailureIsCacheError ==
    \A c \in Over :
        (\E i \in EventsOf(req[c], {"cache.get", "cache.put"}) : ~req[c].log[i].ok)
            => req[c].status = "raised" /\ req[c].error = ConnectionCacheError

\* C5: no service operation raises ValidationError: a get_by_id whose
\* document does not validate logs it and returns None.
C5_ValidationErrorNeverRaised ==
    \A c \in Over :
        /\ req[c].error # ValidationError
        /\ ( /\ req[c].op = "get_by_id" /\ CacheMiss(req[c]) /\ AllAnswered(req[c])
             /\ engine[req[c].svc][req[c].id] # NoDoc
             /\ ~Model_validates(req[c].svc, engine[req[c].svc][req[c].id]) )
           => /\ req[c].status = "returned" /\ req[c].result = None
              /\ req[c].logged >= 1

\* C6: a request, one of whose engine calls was not answered, raises the
\* engine's ConnectionError; that call is its last I/O and it has put nothing
\* in the cache.
C6_EngineFailurePropagates ==
    \A c \in Over :
        \A i \in EventsOf(req[c], {"es.get", "es.search"}) :
            ~req[c].log[i].ok =>
                /\ req[c].status = "raised"
                /\ req[c].error = ElasticConnectionError
                /\ i = Len(req[c].log)
                /\ EventsOf(req[c], {"cache.put"}) = {}

C6_Witness ==
    \E c \in GetByIdOver :
        /\ req[c].svc = "persons" /\ Len(req[c].log) = 3
        /\ req[c].log[3].io = "es.search" /\ ~req[c].log[3].ok
        /\ req[c].item # None
        /\ req[c].error = ElasticConnectionError

\* the name list of a film for a role label
NamesUnder(film, role) ==
    CASE role = "actor" -> film.actors_names
      [] role = "writer" -> film.writers_names
      [] role = "director" -> film.directors_names

\* C7: _get_roles_from_filmworks(P, Fs) has one entry per film of Fs, in the
\* order of Fs and with the film's id; its roles are labels among actor,
\* writer, director, none twice, and hold label r exactly when P.full_name is
\* in the film's list of r names.
C7_RolesByNameMembership ==
    rolesOut.done =>
        LET P == rolesIn.person
            Fs == rolesIn.films
            out == rolesOut.value
        IN /\ Len(out) = Len(Fs)
           /\ \A i \in 1..Len(Fs) :
                 /\ out[i].id = Fs[i].id
                 /\ \A r \in {"actor", "writer", "director"} :
                       (r \in Range(out[i].roles)) <=> (P.full_name \in Range(NamesUnder(Fs[i], r)))
                 /\ Range(out[i].roles) \subseteq {"actor", "writer", "director"}
                 /\ Cardinality(Range(out[i].roles)) = Len(out[i].roles)

C7_Witness ==
    /\ rolesOut.done /\ rolesIn.person.full_name = "Alice"
    /\ Len(rolesIn.films) = 2
    /\ rolesIn.films[1].actors_names = <<"Alice">>
    /\ rolesIn.films[1].writers_names = <<>>
    /\ rolesIn.films[1].directors_names = <<"Alice">>
    /\ Range(rolesOut.value[1].roles) = {"actor", "director"}
    /\ rolesIn.films[2].writers_names = <<"Bob", "Alice", "Alice">>
    /\ rolesOut.value[2].id = "x2"

\* the roles entry of a person for the films of the engine that embed the
\* person: one entry per film, the labels of the lists that hold the name
RolesAsDerived(films, person_id, full_name) ==
    /\ {films[i].id : i \in 1..Len(films)} = FilmIdsOfPerson(person_id)
    /\ Len(films) = Cardinality(FilmIdsOfPerson(person_id))
    /\ \A i \in 1..Len(films) :
          Range(films[i].roles) =
             {r \in {"actor", "writer", "director"} :
                 full_name \in Range(NamesUnder(engine.movies[films[i].id], r))}

\* the engine call that fetches all the films of a person
FetchesAllFilmsOf(event, person_id) ==
    /\ event.io = "es.search" /\ event.call.index = "movies"
    /\ event.call.size = 10000 /\ event.call.from_ = 0
    /\ Len(event.call.query.bool.should) = 3
    /\ \A j \in 1..3 :
          event.call.query.bool.should[j].nested.query.bool.filter.term.value = person_id

\* C8: PersonService.get_by_id on a cache miss for an existing person asks
\* the engine for the person's films with size 10000 from 0, returns the
\* person with the roles derived from them and puts that person, films
\* included, in the cache; a get_by_id served from the cache returns the
\* films of the call that filled it.
C8_PersonCachedWithFilms ==
    \A c \in GetByIdOver :
        LET fr == req[c]
            n == Len(fr.log)
        IN fr.svc = "persons" =>
             /\ (CacheMiss(fr) /\ n >= 3) => FetchesAllFilmsOf(fr.log[3], fr.id)
             /\ (CacheMiss(fr) /\ AllAnswered(fr) /\ engine.persons[fr.id] # NoDoc
                  /\ DocumentsValidate(fr))
                => /\ fr.status = "returned" /\ n = 4
                   /\ RolesAsDerived(fr.result.films, fr.id, fr.result.full_name)
                   /\ fr.log[4].io = "cache.put"
                   /\ JsonHas(fr.log[4].value, "films")
                   /\ model_validate_json("persons", fr.log[4].value).films = fr.result.films
             /\ CacheHit(fr)
                => /\ fr.status = "returned"
                   /\ fr.result.films = fr.log[1].filled_by.films
                   /\ RolesAsDerived(fr.result.films, fr.id, fr.result.full_name)

C8_Witness ==
    \E c \in GetByIdOver :
        /\ req[c].svc = "persons" /\ req[c].id = "x1" /\ CacheHit(req[c])
        /\ req[c].status = "returned"
        /\ req[c].result.films = << [id |-> "x1", roles |-> <<"actor", "director">>],
                                    [id |-> "x2", roles |-> <<"writer">>] >>

\* What C9 says of a state: PersonService.search has made no cache call;
\* when it returns, it has sent, after its text query, one
\* fetch of all the films (size 10000) per person found, in order, and each
\* person found carries the roles derived from them.
C9_SearchInvariant ==
    \A c \in DOMAIN req :
        LET fr == req[c]
        IN (fr.svc = "persons" /\ fr.op = "search") =>
             /\ EventsOf(fr, {"cache.get", "cache.put"}) = {}
             /\ fr.status = "returned" =>
                   /\ Len(fr.log) = 1 + Len(fr.result.list)
                   /\ \A i \in 1..Len(fr.result.list) :
                         /\ FetchesAllFilmsOf(fr.log[i + 1], fr.result.list[i].id)
                         /\ RolesAsDerived(fr.result.list[i].films, fr.result.list[i].id,
                                           fr.result.list[i].full_name)

\* C9, in full: the invariant above in every state, and no step of
\* PersonService.search changes the cache.
C9_SearchLeavesCache ==
    /\ []C9_SearchInvariant
    /\ [][(\E c \in DOMAIN req : PersonService_search_text(c) \/ PersonService_search_films(c))
            => cache' = cache]_vars

C9_Witness ==
    \E c \in Over :
        /\ req[c].svc = "persons" /\ req[c].op = "search" /\ req[c].status = "returned"
        /\ Len(req[c].result.list) = 2 /\ Len(req[c].log) = 3
        /\ Len(req[c].result.list[2].films) = 1
        /\ DOMAIN cache = {"genres_x1"}

\* the engine sort list of the sort directives of the callers
SortAsGiven(sort) ==
    [i \in 1..Len(sort) |->
        IF sort[i][1] = "-" THEN [field |-> sort[i][2], order |-> "desc"]
        ELSE [field |-> sort[i][1], order |-> "asc"]]
    \o << [field |-> "_score", order |-> "desc"] >>

\* C10: get_person_films(person_id, params) sends the engine one query and
\* no other I/O: on the movies index, with the caller's page (size, from) and
\* sort, no must clause and three should clauses, nested on the paths actors,
\* writers and directors, each a term filter of <path>.id on person_id.  Its
\* result is the page of the films that embed the person under any of the
\* three, each film once.
C10_PersonFilmsQuery ==
    \A c \in Over :
        LET fr == req[c]
            call == fr.log[1].call
            should == call.query.bool.should
            ids == [i \in 1..Len(fr.result.list) |-> fr.result.list[i].id]
            matching == Cardinality(FilmIdsOfPerson(fr.id))
        IN fr.op = "get_person_films" =>
             /\ Len(fr.log) = 1 /\ fr.log[1].io = "es.search"
             /\ call.index = "movies"
             /\ call.size = fr.params.page_size
             /\ call.from_ = fr.params.page_size * (fr.params.page_number - 1)
             /\ call.sort = SortAsGiven(fr.params.sort)
             /\ call.query.bool.must = <<>>
             /\ Len(should) = 3
             /\ {should[j].nested.path : j \in 1..3} = {"actors", "writers", "directors"}
             /\ \A j \in 1..3 :
                   /\ should[j].nested.query.bool.filter.term.field
                         = should[j].nested.path \o ".id"
                   /\ should[j].nested.query.bool.filter.term.value = fr.id
             /\ fr.status = "returned" =>
                   /\ Range(ids) \subseteq FilmIdsOfPerson(fr.id)
                   /\ Cardinality(Range(ids)) = Len(ids)
                   /\ Len(ids) = IF matching > call.from_
                                 THEN Min(call.size, matching - call.from_) ELSE 0

C10_Witness ==
    \E c \in Over :
        /\ req[c].op = "get_person_films" /\ req[c].id = "x1"
        /\ req[c].status = "returned"
        /\ Len(req[c].result.list) = 2
        /\ req[c].result.list[1].id = "x2"
        /\ req[c].result.list[1].actors_names = <<"Bob">>
        /\ req[c].result.list[1].writers_names = <<"Alice", "Bob">>
        /\ req[c].result.list[2].actors_names = <<"Alice">>

(***************************************************************************)
(* The adapter's queries (under SpecSearch)                                *)
(***************************************************************************)
\* the document holds, under the filter's path, an object with the term
SatisfiesNested(doc, nested_object) ==
    /\ nested_object.name \in DOMAIN doc
    /\ \E i \in 1..Len(doc[nested_object.name]) :
          doc[nested_object.name][i][nested_object.filter_field] = nested_object.term_value

\* the documents that satisfy the text predicate, when one is given, and one
\* nested filter at least, when any are given
TextAndAnyNested ==
    { id \in Ids :
        /\ engine.movies[id] # NoDoc
        /\ \/ searchIn.search_query = None
           \/ MatchesClause(engine.movies[id], searchIn.search_query)
        /\ \/ searchIn.nested_objects = <<>>
           \/ \E i \in 1..Len(searchIn.nested_objects) :
                 SatisfiesNested(engine.movies[id], searchIn.nested_objects[i]) }

\* the result of _search is the whole result: first page, no shorter than
\* the index
SearchedWhole ==
    /\ searchOut.done /\ searchIn.fn = "_search"
    /\ searchOut.r.raised = NoError
    /\ searchOut.r.call.from_ = 0 /\ searchOut.r.call.size >= Cardinality(Ids)

\* C11: the query _search builds matches a document if and only if the
\* document satisfies the text predicate (when one is given) and at least
\* one of the nested filters (when any are given), also when a text
\* predicate and nested filters are given together.
C11_NestedOrAndText ==
    SearchedWhole =>
       Range([i \in 1..Len(searchOut.r.value) |-> searchOut.r.value[i].id])
          = TextAndAnyNested

\* the parameters a call is made with: the defaults when none are given
ParamsOf(params) == IF params = None THEN CommonQueryParams(1, 10, <<>>) ELSE params

\* text_search has sent the engine a query (it sends none when a sort
\* directive is the empty string: IndexError)
TextSearched ==
    /\ searchOut.done /\ searchIn.fn = "text_search"
    /\ searchOut.r.call # None

\* the forms of the query text_search builds, the query values of noText
\* being those that yield no text predicate
TextSearchForms(noText) ==
    LET q == searchIn.search_query
        fields == searchIn.search_fields
        call == searchOut.r.call
        params == ParamsOf(searchIn.params)
    IN /\ (q \notin noText /\ Len(fields) = 1) =>
             call.query.bool.must =
                << [match |-> [field |-> fields[1], query |-> q, fuzziness |-> "auto"]] >>
       /\ (q \notin noText /\ Len(fields) > 1) =>
             call.query.bool.must = << [multi_match |-> [query |-> q, fields |-> fields]] >>
       /\ q \in noText => call.query.bool.must = <<>>
       /\ call.query.bool.should = <<>>
       /\ call.size = params.page_size
       /\ call.from_ = params.page_size * (params.page_number - 1)
       /\ call.sort = SortAsGiven(params.sort)

\* C12 as stated: text_search builds, for a present query, a match with
\* fuzziness on the field when one field is given and a multi_match without
\* fuzziness over all the fields when several are; only an absent query
\* yields no text predicate; the page and the sort of params are applied in
\* the three cases.
C12_OnlyAbsentQueryMatchesAll == TextSearched => TextSearchForms({NoneStr})

\* C12, amended: the same, an empty query string being treated as an absent
\* one: both yield a query with no text predicate, which matches every
\* document of the index.
C12_TextSearchForms ==
    TextSearched =>
       /\ TextSearchForms({NoneStr, ""})
       /\ (searchIn.search_query \in {NoneStr, ""} /\ searchOut.r.raised = NoError) =>
             Len(searchOut.r.value) =
                LET n == Cardinality({id \in Ids : engine.movies[id] # NoDoc})
                    call == searchOut.r.call
                IN IF n > call.from_ THEN Min(call.size, n - call.from_) ELSE 0

C12_Witness ==
    /\ TextSearched /\ searchOut.r.raised = NoError
    /\ searchIn.search_query = "" /\ searchIn.search_fields = FilmSearchFields
    /\ searchIn.params # None /\ searchIn.params.page_number = 2
    /\ searchOut.r.call.query.bool.must = <<>>
    /\ Len(searchOut.r.value) = 1 /\ searchOut.r.value[1].id = "x1"
    /\ Len(searchOut.r.call.sort) = 2

\* _search or text_search has sent the engine a call
CallSent == searchOut.done /\ searchOut.r.call # None

\* C13: for every page_number >= 1 and page_size >= 1 the adapter sends the
\* engine size = page_size and from = page_size * (page_number - 1); with no
\* params it sends size 10 and from 0; pages 1 and 2 of size 10 start at 0
\* and at 10.
C13_PageToSizeAndFrom ==
    CallSent =>
       LET call == searchOut.r.call
           params == searchIn.params
       IN /\ params # None =>
                /\ call.size = params.page_size
                /\ call.from_ = params.page_size * (params.page_number - 1)
          /\ params = None => (call.size = 10 /\ call.from_ = 0)
          /\ (params # None /\ params.page_size = 10 /\ params.page_number = 1) =>
                call.from_ = 0
          /\ (params # None /\ params.page_size = 10 /\ params.page_number = 2) =>
                call.from_ = 10

C13_Witness ==
    /\ CallSent /\ searchOut.up
    /\ searchIn.params # None
    /\ searchIn.params.page_number = 2 /\ searchIn.params.page_size = 10
    /\ searchOut.r.call.size = 10 /\ searchOut.r.call.from_ = 10
    /\ searchOut.r.value = <<>>

\* every directive is a field name, with a sign before it or not
DirectivesNamed(sort) == \A i \in 1..Len(sort) : sort[i] # <<>>

\* C14: the engine sort list is the directives in the order given, a
\* directive with a leading "-" as (its field without the sign, desc) and any
\* other as (its field, asc), followed by (_score, desc) as the last element;
\* with no directive it is (_score, desc) alone.
C14_SortListAsDirected ==
    (searchOut.done /\ DirectivesNamed(ParamsOf(searchIn.params).sort)) =>
       LET given == ParamsOf(searchIn.params).sort
           sort == searchOut.r.call.sort
       IN /\ searchOut.r.call # None
          /\ Len(sort) = Len(given) + 1
          /\ sort[Len(sort)] = [field |-> "_score", order |-> "desc"]
          /\ \A i \in 1..Len(given) :
                /\ given[i][1] = "-" =>
                      sort[i] = [field |-> given[i][2], order |-> "desc"]
                /\ given[i][1] # "-" =>
                      sort[i] = [field |-> given[i][1], order |-> "asc"]
          /\ given = <<>> => sort = << [field |-> "_score", order |-> "desc"] >>

C14_Witness ==
    /\ CallSent /\ searchOut.up /\ searchOut.r.raised = NoError
    /\ searchIn.params # None
    /\ searchIn.params.sort = << <<"title">>, <<"-", "imdb_rating">> >>
    /\ searchOut.r.call.sort = << [field |-> "title", order |-> "asc"],
                                  [field |-> "imdb_rating", order |-> "desc"],
                                  [field |-> "_score", order |-> "desc"] >>
    /\ Len(searchOut.r.value) = 2 /\ searchOut.r.value[1].id = "x2"

(***************************************************************************)
(* Concurrent requests (under SpecConcurrent)                              *)
(***************************************************************************)
\* the entity a request on its own returns for the id, both backends
\* answering and the cache empty: a miss, the document, for a person the
\* films, the put.  None where it returns no entity: no document, a genre
\* document that does not validate (GenreService logs and returns None), or
\* a request that raises.
LoneEntity(svc, id) ==
    LET doc == ElasticSearchService_get_by_id(svc, id, TRUE).value
        films == FilmService_get_person_films(id, AllFilmsParams, TRUE)
    IN IF doc = None THEN None
       ELSE IF ~Model_validates(svc, doc) THEN None
       ELSE IF svc # "persons" THEN Model(svc, doc)
       ELSE IF films.raised # NoError THEN None
       ELSE [Person(doc) EXCEPT !.films = get_roles_from_filmworks(Person(doc), films.value)]

\* the requests that missed the cache, asked the engine and put their entity
PutAfterMiss ==
    {c \in GetByIdOver :
        /\ req[c].status = "returned" /\ CacheMiss(req[c])
        /\ EventsOf(req[c], {"es.get"}) # {}
        /\ \E i \in EventsOf(req[c], {"cache.put"}) : req[c].log[i].ok}

\* C15: whatever the interleaving of the get_by_id requests for one id, a
\* request that returns returns the entity a request on its own returns, and
\* the cache entry of the id, whenever there is one, holds the serialization
\* of that entity (a second put of it changes nothing).
C15_ConcurrentSameEntity ==
    /\ \A c \in GetByIdOver :
          req[c].status = "returned" => req[c].result = LoneEntity(req[c].svc, req[c].id)
    /\ \A svc \in Indexes, id \in Ids :
          CacheKey(svc, id) \in DOMAIN cache =>
             /\ cache[CacheKey(svc, id)].value = model_dump_json(svc, LoneEntity(svc, id))
             /\ cache[CacheKey(svc, id)].ttl = CACHE_EXPIRE_IN_SECONDS

\* two requests for one person missed together: two engine queries for the
\* document, two puts, one entity
C15_Witness ==
    \E c, d \in PutAfterMiss :
        /\ c # d /\ req[c].svc = "persons" /\ req[d].svc = "persons"
        /\ req[c].id = "x1" /\ req[d].id = "x1"
        /\ req[c].result = req[d].result
        /\ Len(req[c].result.films) = 2
        /\ "persons_x1" \in DOMAIN cache

(***************************************************************************)
(* The list routes (under SpecRoutes)                                      *)
(***************************************************************************)
\* the routes that have answered a service call which returned no item
AnsweredEmpty ==
    {c \in DOMAIN req :
        /\ req[c].status = "responded" /\ req[c].error = NoError
        /\ req[c].result.list = <<>>}

\* C16: person_search, person_filmworks and genre_list raise HTTPException
\* when the list their service call returned is empty (no person relevant
\* to the query, no film of the person, no genre).
C16_EmptyListRaises ==
    \A c \in AnsweredEmpty : req[c].response.raised = HTTPException

(***************************************************************************)
(* Service.get_by_text_field (under Spec)                                  *)
(***************************************************************************)
\* C17: a call of get_by_text_field(field, text) that returns has sent the
\* engine exactly one query, a match of the text on the one field, and no
\* call to the cache; it returns the entity hydrated from the first document
\* of the query's result, None when the result is empty.
C17_OneTextQuery ==
    \A c \in Over :
        LET fr == req[c]
            searches == EventsOf(fr, {"es.search"})
            hits == SearchHits(engine[fr.svc], fr.log[1].call)
        IN (fr.op = "get_by_text_field" /\ fr.status = "returned") =>
             /\ Cardinality(searches) = 1
             /\ searches = 1..Len(fr.log)
             /\ \A i \in searches :
                   /\ fr.log[i].call.index = fr.svc
                   /\ fr.log[i].call.query.bool.should = <<>>
                   /\ fr.log[i].call.query.bool.must =
                         << [match |-> [field |-> fr.field, query |-> fr.text,
                                        fuzziness |-> "auto"]] >>
             /\ fr.result = IF hits = <<>> THEN None ELSE Model(fr.svc, hits[1])


====
